---- MODULE Spec2Model ----
(***************************************************************************)
(* Model of the offline ETL utilities of the DLR dashboard:                *)
(*   utils/trend_extractor.py   day-of-week totals per street (trend.json) *)
(*   utils/trend-metadata.py    daily/weekly/monthly trends per street     *)
(*   utils/street-extractor.py  OSM road segments trimmed to cyclist data  *)
(* Strings are sequences of one-character strings, so that split, strip,   *)
(* lower and substring search are computed as Python computes them.        *)
(***************************************************************************)
EXTENDS Integers, Sequences, FiniteSets, TLC

VARIABLES
    \* ---- the two CSV inputs shared by trend_extractor.py and trend-metadata.py
    df,                 \* daily_street_data.csv: sequence of rows
    df2,                \* dlr-route-popularity.csv: the 'Street Name' column
    \* ---- trend_extractor.py
    trendPc,            \* "idle" | "loop" | "written"
    target_streets,     \* df2['Street Name'].unique().tolist()
    trendIdx,           \* streets of target_streets already processed
    street_variants,    \* get_street_variants(street) of the last iteration
    simple_day_data,    \* dict street -> entry
    streets_not_found,  \* list of streets without any matching record
    trendJson,          \* trend.json: [exists, data]
    \* ---- trend-metadata.py
    metaPc,             \* "idle" | "loop" | "saved" | "validated" | "crashed"
    metaIdx,            \* rows of file_a already processed
    trends_metadata,    \* dict street -> metadata
    report,             \* validation verdict per street of the metadata
    \* ---- street-extractor.py
    graphFile,          \* dublin_graph.graphml: "absent" | "valid" | "partial"
    gdf_edges,          \* the edges of the Dublin graph (name, ref, geometry)
    gdf_points,         \* dublin-lights_v2.parquet: cyclist points
    file_a,             \* dlr-route-popularity.csv: the 'Street Name' column
    exPc,               \* "idle" | "graph" | "convert" | "rows" | "export" | "summary" | "done" | "failed"
    runs,               \* runs of the script started so far
    runs_left,          \* runs of the script still to be started
    downloads,          \* calls of ox.graph_from_point so far
    saves,              \* completed calls of ox.save_graphml so far
    exIdx,              \* rows of file_a already processed in this run
    parts,              \* the parts of the last processed row
    all_parts,          \* the trimmed geometries of the last processed row
    final_segments,     \* list of extracted segments of this run
    added,              \* indices of the rows appended to final_segments
    merge_raised,       \* indices of the rows whose unary_union raised
    outputFile,         \* trimmed_active_segments.geojson: [exists, features, run that wrote it]
    summary,            \* the numbers of the processing summary
    \* ---- trim_geometry_to_points called on its own
    trimCall,           \* [called, road, points, result] of the last call
    \* ---- src/tab2_abnormal_events.py and src/tab3_route_popularity.py
    loaderCall,         \* one call of a data loader: [called, name, env, outcome]
    tabFiles,           \* the data files of the two tabs, one environment per file
    session_state,      \* st.session_state: dict key -> value
    rendered            \* what the last run of each tab drew: [last, tab2, tab3]

trendVars == <<trendPc, target_streets, trendIdx, street_variants, simple_day_data,
              streets_not_found, trendJson>>
metaVars == <<metaPc, metaIdx, trends_metadata, report>>
inputVars == <<df, df2>>
tabVars == <<loaderCall, tabFiles, session_state, rendered>>
extractVars == <<graphFile, gdf_edges, gdf_points, file_a, exPc, runs, runs_left, downloads, saves, exIdx, parts,
                 all_parts, final_segments, added, merge_raised, outputFile, summary>>

(***************************************************************************)
(* Strings                                                                 *)
(***************************************************************************)

\* A missing CSV cell: pandas reads it as float NaN, which is not a str.
NaN == <<"NaN">>

IsStr(x) == x /= NaN

Range(s) == {s[i] : i \in 1..Len(s)}

UpperCase == <<"A","B","C","D","E","F","G","H","I","J","K","L","M","N","O","P","Q","R","S","T","U","V","W","X","Y","Z">>

LowerCase == <<"a","b","c","d","e","f","g","h","i","j","k","l","m","n","o","p","q","r","s","t","u","v","w","x","y","z">>

\* the characters of the street names
Chars ==
    Range(UpperCase) \cup Range(LowerCase)
        \cup {" ", "&", "/", "'", ",", ";", "0", "1", "2", "3", "4", "5", "6", "7", "8", "9"}

\* one character of str.lower()
LowerChar ==
    [c \in Chars |->
        IF \E i \in 1..Len(UpperCase) : UpperCase[i] = c
        THEN LowerCase[CHOOSE i \in 1..Len(UpperCase) : UpperCase[i] = c]
        ELSE c]

\* str.lower()
Lower(s) == [i \in 1..Len(s) |-> LowerChar[s[i]]]

\* sub in s (case-sensitive substring test; the empty string is in every string)
Contains(s, sub) ==
    \E i \in 1..(Len(s) - Len(sub) + 1) : SubSeq(s, i, i + Len(sub) - 1) = sub

\* Series.str.contains(pat, case=False, na=False, regex=False) for one cell
ContainsNoCase(cell, pat) ==
    /\ IsStr(cell)
    /\ Contains(Lower(cell), Lower(pat))

RECURSIVE LStrip(_)
LStrip(s) == IF s /= <<>> /\ Head(s) = " " THEN LStrip(Tail(s)) ELSE s

RECURSIVE RStrip(_)
RStrip(s) == IF s /= <<>> /\ s[Len(s)] = " " THEN RStrip(SubSeq(s, 1, Len(s) - 1)) ELSE s

\* str.strip()
Strip(s) == RStrip(LStrip(s))

\* str.split(sep) for a non-empty separator: left to right, non-overlapping
RECURSIVE Split(_, _)
Split(s, sep) ==
    LET hits == {i \in 1..(Len(s) - Len(sep) + 1) : SubSeq(s, i, i + Len(sep) - 1) = sep}
    IN  IF hits = {}
        THEN <<s>>
        ELSE LET i == CHOOSE h \in hits : \A g \in hits : h <= g
             IN  <<SubSeq(s, 1, i - 1)>> \o Split(SubSeq(s, i + Len(sep), Len(s)), sep)

StripAll(ss) == [i \in 1..Len(ss) |-> Strip(ss[i])]

NonEmpty(v) == v /= <<>>

RECURSIVE SeqSum(_)
SeqSum(s) == IF s = <<>> THEN 0 ELSE Head(s) + SeqSum(Tail(s))

RECURSIVE Flatten(_)
Flatten(ss) == IF ss = <<>> THEN <<>> ELSE Head(ss) \o Flatten(Tail(ss))

\* Series.unique(): first occurrences, in order; DataFrame.drop_duplicates()
\* is the same on whole rows
RECURSIVE Unique(_)
Unique(s) ==
    IF s = <<>> THEN <<>>
    ELSE LET init == Unique(SubSeq(s, 1, Len(s) - 1))
             last == s[Len(s)]
         IN  IF last \in Range(init) THEN init ELSE Append(init, last)

EmptyDict == [k \in {} |-> 0]

DictPut(d, k, v) == [x \in DOMAIN d \cup {k} |-> IF x = k THEN v ELSE d[x]]

(***************************************************************************)
(* Dates: days since Monday 2024-01-01; NaT is a missing date.             *)
(***************************************************************************)

NaT == -1

days_order == <<"Monday", "Tuesday", "Wednesday", "Thursday", "Friday", "Saturday", "Sunday">>

\* Series.dt.day_name(): NaN for NaT, which equals no day name
day_name(d) == IF d = NaT THEN "NaN" ELSE days_order[(d % 7) + 1]


(***************************************************************************)
(* Inputs: street names of the two CSV files and the daily rows            *)
(***************************************************************************)

WestPier == <<"W","e","s","t"," ","P","i","e","r">>

NutleyLane == <<"N","u","t","l","e","y"," ","L","a","n","e">>

\* an intersection, as the popularity file and the daily file both name it
NutleyAndWestPier == NutleyLane \o <<" ","&"," ">> \o WestPier

\* alternative names
NutleyOrWestPier == NutleyLane \o <<" ","/"," ">> \o WestPier

KillLane == <<"K","i","l","l"," ","L","a","n","e">>

\* an intersection given as an alternative of another street
IntersectionOrKillLane == NutleyAndWestPier \o <<" ","/"," ">> \o KillLane

\* the same street in another case
westpier == Lower(WestPier)

\* values of the 'Street Name' column of dlr-route-popularity.csv
StreetNameChoices ==
    {WestPier, westpier, NutleyAndWestPier, NutleyOrWestPier, IntersectionOrKillLane, NaN}

\* values of the road_name column of daily_street_data.csv
RoadNameChoices == {WestPier, NutleyLane, NutleyAndWestPier}

\* values of the date column: Sun 2024-01-28, Wed 2024-01-31, Thu 2024-02-01,
\* and a missing date
DateChoices == {27, 30, 31, NaT}

\* values of the pair (daily_cyclists, daily_rides)
MetricChoices == {<<1, 2>>, <<2, 1>>}

MaxRows == 2

MaxStreets == 2

DailyRows ==
    {[road_name |-> r, date |-> d, daily_cyclists |-> m[1], daily_rides |-> m[2]] :
        r \in RoadNameChoices, d \in DateChoices, m \in MetricChoices}

SeqsUpTo(S, n) == UNION {[1..k -> S] : k \in 0..n}

(***************************************************************************)
(* utils/trend_extractor.py                                                *)
(***************************************************************************)

\* every individual street name of a string: the '/' alternatives, each split
\* at '&' into the members of an intersection
AllStreetNames(street_name) ==
    IF ~IsStr(street_name) THEN <<>>
    ELSE LET alts == Split(street_name, <<"/">>)
             names == Flatten([i \in 1..Len(alts) |-> StripAll(Split(alts[i], <<"&">>))])
         IN  SelectSeq(names, NonEmpty)

get_street_variants(street_name) ==
    IF ~IsStr(street_name) THEN <<>>
    ELSE LET variants ==
                 IF Contains(street_name, <<"/">>)
                 THEN StripAll(Split(street_name, <<"/">>))
                 ELSE IF Contains(street_name, <<"&">>)
                      THEN StripAll(Split(street_name, <<"&">>))
                      ELSE <<Strip(street_name)>>
         IN  SelectSeq(variants, NonEmpty)

\* df[df['road_name'].str.contains(variant, case=False, na=False, regex=False)]
variant_data(frame, variant) ==
    LET Hit(row) == ContainsNoCase(row.road_name, variant)
    IN  SelectSeq(frame, Hit)

\* the variants with at least one record
found_variants(frame, variants) ==
    LET Found(v) == Len(variant_data(frame, v)) > 0
    IN  SelectSeq(variants, Found)

\* pd.concat of the variant_data of every variant, then drop_duplicates()
combined_data(frame, variants) ==
    Unique(Flatten([i \in 1..Len(variants) |-> variant_data(frame, variants[i])]))

\* sum of daily_cyclists over the rows of one day of the week
day_total(rows, day) ==
    LET OnDay(row) == day_name(row.date) = day
        sel == SelectSeq(rows, OnDay)
    IN  SeqSum([i \in 1..Len(sel) |-> sel[i].daily_cyclists])

day_totals(rows) == [day \in Range(days_order) |-> day_total(rows, day)]

\* sum(day_totals.values())
SumValues(dt) == SeqSum([i \in 1..Len(days_order) |-> dt[days_order[i]]])

\* total_cyclists summed over the combined rows instead of over day_totals
TrendEntry_total_from_rows(frame, street) ==
    LET variants == get_street_variants(street)
        combined == combined_data(frame, variants)
    IN  [day_totals |-> day_totals(combined),
         total_cyclists |-> SeqSum([i \in 1..Len(combined) |-> combined[i].daily_cyclists]),
         variants_found |-> found_variants(frame, variants)]

\* the entry simple_day_data[street] of one loop iteration
TrendEntry(frame, street) ==
    LET variants == get_street_variants(street)
        combined == combined_data(frame, variants)
        totals == day_totals(combined)
    IN  [day_totals |-> totals,
         total_cyclists |-> SumValues(totals),
         variants_found |-> found_variants(frame, variants)]

\* the script starts: read both files, take the unique street names
TrendStart ==
    /\ trendPc = "idle"
    /\ metaPc \in {"idle", "validated", "crashed"}
    /\ trendPc' = "loop"
    /\ target_streets' = Unique(df2)
    /\ trendIdx' = 0
    /\ street_variants' = <<>>
    /\ simple_day_data' = EmptyDict
    /\ streets_not_found' = <<>>
    /\ UNCHANGED <<trendJson, inputVars, metaVars, extractVars, trimCall, tabVars>>

\* one iteration of `for street in target_streets`
TrendProcessStreet ==
    /\ trendPc = "loop"
    /\ trendIdx < Len(target_streets)
    /\ LET street == target_streets[trendIdx + 1]
           combined == combined_data(df, get_street_variants(street))
       IN  /\ street_variants' = get_street_variants(street)
           /\ streets_not_found' =
                  IF Len(combined) = 0 THEN Append(streets_not_found, street)
                  ELSE streets_not_found
           /\ simple_day_data' = DictPut(simple_day_data, street, TrendEntry(df, street))
    /\ trendIdx' = trendIdx + 1
    /\ UNCHANGED <<trendPc, target_streets, trendJson, inputVars, metaVars, extractVars, trimCall, tabVars>>

\* json.dump(simple_day_data, f)
TrendSave ==
    /\ trendPc = "loop"
    /\ trendIdx = Len(target_streets)
    /\ trendJson' = [exists |-> TRUE, data |-> simple_day_data]
    /\ trendPc' = "written"
    /\ UNCHANGED <<target_streets, trendIdx, street_variants, simple_day_data,
                   streets_not_found, inputVars, metaVars, extractVars, trimCall, tabVars>>


(***************************************************************************)
(* utils/trend-metadata.py                                                 *)
(***************************************************************************)

LeopardstownRoad == <<"L","e","o","p","a","r","d","s","t","o","w","n"," ","R","o","a","d">>

PucksCastleLane == <<"P","u","c","k","'","s"," ","C","a","s","t","l","e"," ","L","a","n","e">>

BlackthornAvenue == <<"B","l","a","c","k","t","h","o","r","n"," ","A","v","e","n","u","e">>

BurtonHallRoad == <<"B","u","r","t","o","n"," ","H","a","l","l"," ","R","o","a","d">>

BlackthornRoad == <<"B","l","a","c","k","t","h","o","r","n"," ","R","o","a","d">>

BlackthornDrive == <<"B","l","a","c","k","t","h","o","r","n"," ","D","r","i","v","e">>

LeopardstownAvenue == <<"L","e","o","p","a","r","d","s","t","o","w","n"," ","A","v","e","n","u","e">>

ClonskeaghRoad == <<"C","l","o","n","s","k","e","a","g","h"," ","R","o","a","d">>

BlackthornCombined ==
    BlackthornAvenue \o <<" ","/"," ">> \o BurtonHallRoad \o <<" ","/"," ">>
        \o BlackthornRoad \o <<" ","/"," ">> \o BlackthornDrive

MappedNames ==
    {WestPier, LeopardstownRoad, PucksCastleLane, BlackthornCombined,
     LeopardstownAvenue, ClonskeaghRoad, NutleyLane}

STREET_MAPPING ==
    [k \in MappedNames |->
        IF k = BlackthornCombined
        THEN <<BlackthornAvenue, BurtonHallRoad, BlackthornRoad, BlackthornDrive>>
        ELSE <<k>>]

\* defined for a str only: NaN has no strip()
split_street_name(combined_name) ==
    IF combined_name \in DOMAIN STREET_MAPPING
    THEN STREET_MAPPING[combined_name]
    ELSE <<Strip(combined_name)>>

\* file_b['road_name'].unique().tolist()
available_streets(frame) == Unique([i \in 1..Len(frame) |-> frame[i].road_name])

existing_streets(frame, individual_streets) ==
    LET avail == Range(available_streets(frame))
        Exists(street) == \E a \in avail : Contains(street, a) \/ Contains(a, street)
    IN  SelectSeq(individual_streets, Exists)

\* file_b[file_b['road_name'].str.contains('|'.join(existing), case=False, na=False)]
\* The pattern is a regular expression: an alternation of the names, none of
\* which holds a regex metacharacter here.
street_data(frame, existing) ==
    LET Hit(row) == \E i \in 1..Len(existing) : ContainsNoCase(row.road_name, existing[i])
    IN  SelectSeq(frame, Hit)

RECURSIVE SortedSeq(_)
SortedSeq(S) ==
    IF S = {} THEN <<>>
    ELSE LET m == CHOOSE x \in S : \A y \in S : x <= y
         IN  <<m>> \o SortedSeq(S \ {m})

SumCyclists(rows) == SeqSum([i \in 1..Len(rows) |-> rows[i].daily_cyclists])

SumRides(rows) == SeqSum([i \in 1..Len(rows) |-> rows[i].daily_rides])

\* groupby('date', dropna=False): the rows without a date form a group too
daily_aggregated_keeps_nat(rows) ==
    LET dates == SortedSeq({rows[i].date : i \in 1..Len(rows)})
        OnDate(d) == LET Same(row) == row.date = d IN SelectSeq(rows, Same)
    IN  [k \in 1..Len(dates) |->
            [date |-> dates[k],
             daily_cyclists |-> SumCyclists(OnDate(dates[k])),
             daily_rides |-> SumRides(OnDate(dates[k]))]]

\* street_data.groupby('date').agg(sum).reset_index().sort_values('date'):
\* groupby drops the rows whose key is NaT
daily_aggregated(rows) ==
    LET dates == SortedSeq({rows[i].date : i \in 1..Len(rows)} \ {NaT})
        OnDate(d) == LET Same(row) == row.date = d IN SelectSeq(rows, Same)
    IN  [k \in 1..Len(dates) |->
            [date |-> dates[k],
             daily_cyclists |-> SumCyclists(OnDate(dates[k])),
             daily_rides |-> SumRides(OnDate(dates[k]))]]

days_lower == <<"monday", "tuesday", "wednesday", "thursday", "friday", "saturday", "sunday">>

\* weekly_pattern[day.lower()] = int(day_data['daily_cyclists'].sum()) over
\* the raw matched records
weekly_pattern(rows) ==
    [key \in Range(days_lower) |->
        LET day == days_order[CHOOSE i \in 1..7 : days_lower[i] = key]
        IN  day_total(rows, day)]

\* 'W' is W-SUN: a bin ends on (and is labelled with) the Sunday on or after the date
WeekLabel(d) == d + (6 - (d % 7))

\* last day of each month of 2024, as days since 2024-01-01
MonthEnds == <<30, 59, 90, 120, 151, 181, 212, 243, 273, 304, 334, 365>>

\* 'ME': a bin ends on (and is labelled with) the last day of the date's month
MonthLabel(d) == CHOOSE e \in Range(MonthEnds) :
                     /\ e >= d
                     /\ \A f \in Range(MonthEnds) : f >= d => e <= f

\* bin labels of resample('W') from the first to the last date
WeekLabels(daily) ==
    IF daily = <<>> THEN <<>>
    ELSE LET first == WeekLabel(daily[1].date)
             last == WeekLabel(daily[Len(daily)].date)
         IN  [k \in 1..((last - first) \div 7 + 1) |-> first + 7 * (k - 1)]

\* bin labels of resample('ME') from the first to the last date
MonthLabels(daily) ==
    IF daily = <<>> THEN <<>>
    ELSE LET first == MonthLabel(daily[1].date)
             last == MonthLabel(daily[Len(daily)].date)
         IN  SortedSeq({e \in Range(MonthEnds) : first <= e /\ e <= last})

\* bins closed on the left, [labels[k-1], labels[k])
BinRows_closed_left(daily, labels, k) ==
    LET InBin(row) == /\ row.date < labels[k]
                      /\ (k > 1 => row.date >= labels[k - 1])
    IN  SelectSeq(daily, InBin)

\* the rows of bin k: bins are closed on the right, (labels[k-1], labels[k]]
BinRows(daily, labels, k) ==
    LET InBin(row) == /\ row.date <= labels[k]
                      /\ (k > 1 => row.date > labels[k - 1])
    IN  SelectSeq(daily, InBin)

\* resample(rule).agg(sum).reset_index(): one entry per bin, empty bins sum to 0
resample(daily, labels) ==
    [k \in 1..Len(labels) |->
        [date |-> labels[k],
         daily_cyclists |-> SumCyclists(BinRows(daily, labels, k)),
         daily_rides |-> SumRides(BinRows(daily, labels, k))]]

\* the metadata stored for one street
MetaEntry(rows, individual, existing) ==
    LET daily == daily_aggregated(rows)
    IN  [daily |-> daily,
         weekly |-> resample(daily, WeekLabels(daily)),
         monthly |-> resample(daily, MonthLabels(daily)),
         component_streets |-> individual,
         existing_component_streets |-> existing,
         stats |-> [total_days |-> Len(daily),
                    total_records |-> Len(rows),
                    total_cyclists |-> SumCyclists(daily),
                    weekly_pattern |-> weekly_pattern(rows)]]

SumPattern(wp) == SeqSum([i \in 1..Len(days_lower) |-> wp[days_lower[i]]])

\* the script starts: extract_street_trends_metadata reads both files
MetaStart ==
    /\ metaPc = "idle"
    /\ trendPc \in {"idle", "written"}
    /\ metaPc' = "loop"
    /\ metaIdx' = 0
    /\ trends_metadata' = EmptyDict
    /\ UNCHANGED <<report, inputVars, trendVars, extractVars, trimCall, tabVars>>

\* one iteration of `for idx, street_row in file_a.iterrows()`
MetaProcessRow ==
    /\ metaPc = "loop"
    /\ metaIdx < Len(df2)
    /\ LET combined_street_name == df2[metaIdx + 1]
       IN  IF ~IsStr(combined_street_name)
           THEN \* combined_name.strip() raises AttributeError
                /\ metaPc' = "crashed"
                /\ UNCHANGED <<metaIdx, trends_metadata>>
           ELSE LET individual == split_street_name(combined_street_name)
                    existing == existing_streets(df, individual)
                    rows == street_data(df, existing)
                IN  IF existing = <<>> \/ rows = <<>>
                    THEN \* continue
                         /\ metaIdx' = metaIdx + 1
                         /\ UNCHANGED <<metaPc, trends_metadata>>
                    ELSE IF daily_aggregated(rows) = <<>>
                    THEN \* daily_aggregated['date'].min() is NaT: strftime raises
                         /\ metaPc' = "crashed"
                         /\ UNCHANGED <<metaIdx, trends_metadata>>
                    ELSE /\ trends_metadata' =
                                DictPut(trends_metadata, combined_street_name,
                                        MetaEntry(rows, individual, existing))
                         /\ metaIdx' = metaIdx + 1
                         /\ UNCHANGED metaPc
    /\ UNCHANGED <<report, inputVars, trendVars, extractVars, trimCall, tabVars>>

\* json.dump(convert_to_serializable(metadata), f)
MetaSave ==
    /\ metaPc = "loop"
    /\ metaIdx = Len(df2)
    /\ metaPc' = "saved"
    /\ UNCHANGED <<metaIdx, trends_metadata, report, inputVars, trendVars, extractVars, trimCall, tabVars>>

\* the verdict of the validation loop for one street of the metadata
Verdict(metadata, day_data, street) ==
    IF street \in DOMAIN day_data
    THEN IF metadata[street].stats.total_cyclists = day_data[street].total_cyclists
         THEN "match" ELSE "MISMATCH"
    ELSE "Not found"

\* VALIDATION: compare with trend.json when it exists
MetaValidate ==
    /\ metaPc = "saved"
    /\ report' = IF trendJson.exists
                 THEN [street \in DOMAIN trends_metadata |->
                          Verdict(trends_metadata, trendJson.data, street)]
                 ELSE EmptyDict
    /\ metaPc' = "validated"
    /\ UNCHANGED <<metaIdx, trends_metadata, inputVars, trendVars, extractVars, trimCall, tabVars>>

(***************************************************************************)
(* utils/street-extractor.py                                               *)
(* Geometry is one-dimensional: positions are grid nodes along one axis    *)
(* running east-west at the latitude of Dublin.  A road geometry is a set  *)
(* of cells (cell c is the line from node c to node c+1), a cyclist point  *)
(* sits on a node.                                                         *)
(***************************************************************************)

\* a geometry, or None
NoGeom == [isNone |-> TRUE, cells |-> {}]

Geom(cells) == [isNone |-> FALSE, cells |-> cells]

buffer_m == 25

\* cos(53.34 degrees) * 1000: metres on the ground per 1000 m of EPSG:3857
\* easting at the latitude of center_point (Web Mercator stretches distances
\* by 1 / cos(latitude))
CosLatPermille == 597

\* to_crs(epsg=3857) of a node: one grid step is 5 m of EPSG:3857 easting
to_crs_3857(node) == 5 * node

\* to_crs(epsg=4326) of an easting: back to the grid
to_crs_4326(x) == x \div 5

Abs(x) == IF x < 0 THEN -x ELSE x

\* is the projected position x inside Point(p).buffer(buffer_m)
InBuffer(x, p) == Abs(x - p) <= buffer_m

\* trim_geometry_to_points(road_geom, points_gdf, buffer_m=25)
trim_geometry_to_points(road_cells, points) ==
    LET \* the road and the points in EPSG:3857: a cell by the eastings of its ends
        road_proj == {<<to_crs_3857(c), to_crs_3857(c + 1)>> : c \in road_cells}
        points_proj == {to_crs_3857(p) : p \in points}
        \* road_gdf.intersection(buffer_union), exploded: the cells inside the
        \* buffer of a point, and the nodes where the road only touches a buffer
        lines == {cell \in road_proj : \E p \in points_proj :
                     InBuffer(cell[1], p) /\ InBuffer(cell[2], p)}
        ends == {cell[1] : cell \in road_proj} \cup {cell[2] : cell \in road_proj}
        touched == {x \in ends : /\ \E p \in points_proj : InBuffer(x, p)
                                 /\ \A cell \in lines : x /= cell[1] /\ x /= cell[2]}
        \* geom.is_valid and geom.length > 0: the single nodes have length 0
        valid_geoms == lines
    IN  IF lines = {} /\ touched = {} THEN NoGeom          \* no intersection
        ELSE IF valid_geoms = {} THEN NoGeom               \* no valid geometries
        ELSE Geom({to_crs_4326(cell[1]) : cell \in valid_geoms})

SandyfordRoad == <<"S","a","n","d","y","f","o","r","d"," ","R","o","a","d">>

RockRoad == <<"R","o","c","k"," ","R","o","a","d">>

KillAndRock == KillLane \o <<" ","&"," ">> \o RockRoad

RockAndKill == RockRoad \o <<" ","a","n","d"," ">> \o KillLane

\* values of the 'Street Name' column of dlr-route-popularity.csv
ExtractNameChoices == {SandyfordRoad, KillLane, KillAndRock, RockAndKill, NaN}

\* edges OSM may hold: Kill Lane is tagged with its ref only
EdgeUniverse ==
    {[name |-> NaN, ref |-> <<"R","8","3","0">>, geometry |-> 0..7],
     [name |-> RockRoad, ref |-> <<"R","1","1","8">>, geometry |-> 20..22],
     [name |-> SandyfordRoad, ref |-> NaN, geometry |-> 40..41]}

\* cyclist points the parquet file may hold
PointUniverse ==
    {[road_name |-> KillLane, pos |-> 0],
     [road_name |-> RockRoad, pos |-> 26],
     [road_name |-> SandyfordRoad, pos |-> 47]}

\* .str.lower().str.strip() of one cell
CleanName(s) == IF IsStr(s) THEN Strip(Lower(s)) ELSE NaN

\* .str.lower() of one cell
LowerCell(s) == IF IsStr(s) THEN Lower(s) ELSE NaN

\* Series.str.contains(pat, na=False) for one cell; pat holds no regex
\* metacharacter here, so the regular expression matches as a substring
ContainsPat(cell, pat) == IsStr(cell) /\ Contains(cell, pat)

\* str.split(): at runs of whitespace, without empty words
SplitWords(s) == SelectSeq(Split(s, <<" ">>), NonEmpty)

separators == << <<"&">>, <<"/">>, <<"a","n","d">>, <<",">>, <<";">> >>

\* one pass of `for sep in separators` over the parts
SplitBy(ps, sep) ==
    Flatten([i \in 1..Len(ps) |->
                IF Contains(ps[i], sep) THEN StripAll(Split(ps[i], sep)) ELSE <<ps[i]>>])

RECURSIVE SplitAll(_, _)
SplitAll(ps, seps) ==
    IF seps = <<>> THEN ps ELSE SplitAll(SplitBy(ps, Head(seps)), Tail(seps))

\* the parts of a cleaned street name
SplitParts(street_name) == SplitAll(<<street_name>>, separators)

\* get_street_geometry(street_name, all_edges)
get_street_geometry(street_name, all_edges) ==
    LET byName == {e \in all_edges :
                      \/ ContainsPat(LowerCell(e.name), street_name)
                      \/ ContainsPat(LowerCell(e.ref), street_name)}
        matches == IF byName = {} /\ Contains(street_name, Lower(KillLane))
                   THEN {e \in all_edges : ContainsPat(LowerCell(e.ref), <<"r","8","3","0">>)}
                   ELSE byName
    IN  IF matches = {} THEN NoGeom
        ELSE Geom(UNION {e.geometry : e \in matches})

PointsNamed(points, pat) ==
    {p \in points : ContainsPat(CleanName(p.road_name), pat)}

\* the points of the first word longer than 3 characters that has any
RECURSIVE WordPoints(_, _)
WordPoints(words, points) ==
    IF words = <<>> THEN {}
    ELSE IF Len(Head(words)) > 3 /\ PointsNamed(points, Head(words)) /= {}
         THEN PointsNamed(points, Head(words))
         ELSE WordPoints(Tail(words), points)

\* subset_points of one part
subset_points(part, points) ==
    IF PointsNamed(points, part) /= {} THEN PointsNamed(points, part)
    ELSE WordPoints(SplitWords(part), points)

\* the result of the body of `for part_idx, part in enumerate(parts)`:
\* the trimmed geometry, or None where the body continues
trimmed_part(part, all_edges, points) ==
    IF part = <<>> \/ Strip(part) = <<>> THEN NoGeom
    ELSE LET osm_geom == get_street_geometry(part, all_edges)
             sub == subset_points(part, points)
         IN  IF osm_geom.isNone \/ sub = {} THEN NoGeom
             ELSE trim_geometry_to_points(osm_geom.cells, {p.pos : p \in sub})

IsGeom(g) == ~g.isNone

\* all_parts after the loop over the parts
trimmed_parts(ps, all_edges, points) ==
    SelectSeq([i \in 1..Len(ps) |-> trimmed_part(ps[i], all_edges, points)], IsGeom)

\* the street names among the values of the 'Street Name' column
StrNames == {n \in ExtractNameChoices : IsStr(n)}

\* parts of every street name
parts_table == [n \in StrNames |-> SplitParts(CleanName(n))]

\* the same table; the comparison makes TLC compute its entries once
parts_of == IF parts_table = parts_table THEN parts_table ELSE parts_table

\* all_parts of every street name under every content of the two datasets
all_parts_table ==
    [e \in SUBSET EdgeUniverse, p \in SUBSET PointUniverse, n \in StrNames |->
        trimmed_parts(parts_of[n], e, p)]

\* the same table; the comparison makes TLC compute its entries once
all_parts_of == IF all_parts_table = all_parts_table THEN all_parts_table ELSE all_parts_table

\* unary_union(all_parts)
unary_union(geoms) == Geom(UNION {geoms[i].cells : i \in 1..Len(geoms)})

\* final_segments with one segment appended per trimmed part
appended_segment_per_part(segments, original_name, street_name, trimmed) ==
    segments \o [i \in 1..Len(trimmed) |->
                    [street_name |-> original_name,
                     original_clean_name |-> street_name,
                     geometry |-> trimmed[i]]]

\* final_segments.append({...}) after the merge of the parts of a row
appended_segment(segments, original_name, street_name, trimmed) ==
    Append(segments, [street_name |-> original_name,
                      original_clean_name |-> street_name,
                      geometry |-> unary_union(trimmed)])

NoSummary == [printed |-> FALSE, total |-> 0, ok |-> 0, failed |-> 0]

\* os.path.exists(graph_filename), always False
GraphCached_never == FALSE

\* os.path.exists(graph_filename)
GraphCached == graphFile /= "absent"

\* main() is called: STEP 1 loads the two datasets
ExStart ==
    /\ exPc \in {"idle", "done", "failed", "crashed"}
    /\ runs_left > 0
    /\ runs_left' = runs_left - 1
    /\ runs' = runs + 1
    /\ exPc' = "graph"
    /\ exIdx' = 0
    /\ parts' = <<>>
    /\ all_parts' = <<>>
    /\ final_segments' = <<>>
    /\ added' = {}
    /\ merge_raised' = {}
    /\ summary' = NoSummary
    /\ UNCHANGED <<graphFile, gdf_edges, gdf_points, file_a, downloads, saves, outputFile,
                   inputVars, trendVars, metaVars, trimCall, tabVars>>

\* STEP 1.5, the file exists: ox.load_graphml, which raises on a truncated file
LoadCachedGraph ==
    /\ exPc = "graph"
    /\ GraphCached
    /\ exPc' = IF graphFile = "valid" THEN "convert" ELSE "failed"
    /\ UNCHANGED <<graphFile, gdf_edges, gdf_points, file_a, runs, runs_left, downloads, saves, exIdx,
                   parts, all_parts, final_segments, added, merge_raised, outputFile, summary,
                   inputVars, trendVars, metaVars, trimCall, tabVars>>

\* STEP 1.5, no file: ox.graph_from_point, then ox.save_graphml; either may raise
DownloadGraph ==
    /\ exPc = "graph"
    /\ ~GraphCached
    /\ downloads' = downloads + 1
    /\ \/ \* graph_from_point raises
          /\ exPc' = "failed"
          /\ UNCHANGED <<graphFile, saves>>
       \/ \* save_graphml raises, before or while it writes the file
          /\ exPc' = "failed"
          /\ graphFile' \in {"absent", "partial"}
          /\ UNCHANGED saves
       \/ \* downloaded and saved
          /\ exPc' = "convert"
          /\ graphFile' = "valid"
          /\ saves' = saves + 1
    /\ UNCHANGED <<gdf_edges, gdf_points, file_a, runs, runs_left, exIdx, parts, all_parts,
                   final_segments, added, merge_raised, outputFile, summary,
                   inputVars, trendVars, metaVars, trimCall, tabVars>>

\* ox.graph_to_gdfs and the flattening of the list columns, which may raise
ConvertGraph ==
    /\ exPc = "convert"
    /\ exPc' \in {"rows", "failed"}
    /\ UNCHANGED <<graphFile, gdf_edges, gdf_points, file_a, runs, runs_left, downloads, saves, exIdx,
                   parts, all_parts, final_segments, added, merge_raised, outputFile, summary,
                   inputVars, trendVars, metaVars, trimCall, tabVars>>

\* STEP 4: one iteration of `for idx, row in file_a.iterrows()`
ExProcessRow ==
    /\ exPc = "rows"
    /\ exIdx < Len(file_a)
    /\ IsStr(file_a[exIdx + 1])
    /\ LET original_name == file_a[exIdx + 1]
           street_name == CleanName(original_name)
           ps == parts_of[original_name]
           trimmed == all_parts_of[gdf_edges, gdf_points, original_name]
       IN  /\ parts' = ps
           /\ all_parts' = trimmed
           /\ IF trimmed = <<>>
              THEN \* continue
                   UNCHANGED <<final_segments, added, merge_raised>>
              ELSE \/ /\ final_segments' =
                             appended_segment(final_segments, original_name, street_name, trimmed)
                      /\ added' = added \cup {exIdx + 1}
                      /\ UNCHANGED merge_raised
                   \/ \* unary_union raises: "Error merging parts"
                      /\ merge_raised' = merge_raised \cup {exIdx + 1}
                      /\ UNCHANGED <<final_segments, added>>
    /\ exIdx' = exIdx + 1
    /\ UNCHANGED <<graphFile, gdf_edges, gdf_points, file_a, exPc, runs, runs_left, downloads, saves,
                   outputFile, summary, inputVars, trendVars, metaVars, trimCall, tabVars>>

\* STEP 4 on a row without a street name: street_name is NaN, no point has
\* road_name_clean == NaN, and street_name.split() raises AttributeError
ExProcessRowNaN ==
    /\ exPc = "rows"
    /\ exIdx < Len(file_a)
    /\ ~IsStr(file_a[exIdx + 1])
    /\ exPc' = "crashed"
    /\ UNCHANGED <<graphFile, gdf_edges, gdf_points, file_a, runs, runs_left, downloads, saves, exIdx,
                   parts, all_parts, final_segments, added, merge_raised, outputFile, summary,
                   inputVars, trendVars, metaVars, trimCall, tabVars>>

\* STEP 5: gdf_final.to_file(output_file)
ExExport ==
    /\ exPc = "rows"
    /\ exIdx = Len(file_a)
    /\ outputFile' = [exists |-> TRUE, features |-> Len(final_segments), run |-> runs]
    /\ exPc' = "summary"
    /\ UNCHANGED <<graphFile, gdf_edges, gdf_points, file_a, runs, runs_left, downloads, saves, exIdx,
                   parts, all_parts, final_segments, added, merge_raised, summary,
                   inputVars, trendVars, metaVars, trimCall, tabVars>>

\* PROCESSING SUMMARY
ExSummary ==
    /\ exPc = "summary"
    /\ summary' = [printed |-> TRUE,
                   total |-> Len(file_a),
                   ok |-> Len(final_segments),
                   failed |-> Len(file_a) - Len(final_segments)]
    /\ exPc' = "done"
    /\ UNCHANGED <<graphFile, gdf_edges, gdf_points, file_a, runs, runs_left, downloads, saves, exIdx,
                   parts, all_parts, final_segments, added, merge_raised, outputFile,
                   inputVars, trendVars, metaVars, trimCall, tabVars>>

\* the state before the first run of street-extractor.py
ExtractFresh(cache, edges, points, rows, limit) ==
    /\ runs_left = limit
    /\ graphFile = cache
    /\ gdf_edges = edges
    /\ gdf_points = points
    /\ file_a = rows
    /\ exPc = "idle"
    /\ runs = 0
    /\ downloads = 0
    /\ saves = 0
    /\ exIdx = 0
    /\ parts = <<>>
    /\ all_parts = <<>>
    /\ final_segments = <<>>
    /\ added = {}
    /\ merge_raised = {}
    /\ outputFile = [exists |-> FALSE, features |-> 0, run |-> 0]
    /\ summary = NoSummary

NoCall == [called |-> FALSE, road |-> {}, points |-> {}, result |-> NoGeom]

\* trim_geometry_to_points(road_geom, points_gdf) is called on the arguments
\* held by trimCall
TrimCall ==
    /\ ~trimCall.called
    /\ trimCall' = [trimCall EXCEPT !.called = TRUE,
                                    !.result = trim_geometry_to_points(trimCall.road,
                                                                       trimCall.points)]
    /\ UNCHANGED <<inputVars, trendVars, metaVars, extractVars, tabVars>>

(***************************************************************************)
(* src/tab2_abnormal_events.py and src/tab3_route_popularity.py: loaders   *)
(* A file is an environment: does it exist, which step raises when it is   *)
(* reached, and the street_name cells of its records (NaN: missing cell).  *)
(***************************************************************************)

\* values a loader returns; .empty of a frame is rows = <<>>
DataFrame(rows) == [type |-> "DataFrame", rows |-> rows]

GeoDataFrame(rows) == [type |-> "GeoDataFrame", rows |-> rows]

Json(rows) == [type |-> "json", rows |-> rows]

EmptyDataFrame == DataFrame(<<>>)

EmptyGeoDataFrame == GeoDataFrame(<<>>)

NoneValue == [type |-> "None", rows |-> <<>>]

EmptyList == [type |-> "list", rows |-> <<>>]

EmptyJsonDict == [type |-> "dict", rows |-> <<>>]

\* the outcome of a block of code: it returned a value or raised, after
\* emitting Streamlit messages; caught: an except clause ran, missing: the
\* file-not-found branch ran
Return(value, messages) ==
    [raised |-> FALSE, value |-> value, messages |-> messages,
     caught |-> FALSE, missing |-> FALSE]

Missing(value, messages) ==
    [raised |-> FALSE, value |-> value, messages |-> messages,
     caught |-> FALSE, missing |-> TRUE]

Raise(messages) ==
    [raised |-> TRUE, value |-> NoneValue, messages |-> messages,
     caught |-> FALSE, missing |-> FALSE]

\* try: body / except Exception: handler
TryExcept(body, handler) ==
    IF body.raised
    THEN [handler EXCEPT !.messages = body.messages \o @, !.caught = TRUE]
    ELSE body

\* a column read by pandas is float64 when every cell of it is missing;
\* the .str accessor of such a column raises AttributeError
FloatColumn(cells) == cells /= <<>> /\ \A i \in 1..Len(cells) : ~IsStr(cells[i])

NotBlank(cell) == Strip(cell) /= <<>>

\* Series.str.strip(): a missing cell stays missing
StripCells(cells) == [i \in 1..Len(cells) |-> IF IsStr(cells[i]) THEN Strip(cells[i]) ELSE NaN]

\* geopandas is imported unconditionally at the top of both modules
GEOPANDAS_AVAILABLE == TRUE

\* tab2: load_abnormal_events_data()
load_abnormal_events_data(env) ==
    TryExcept(
        IF env.locate_raises THEN Raise(<<>>)
        ELSE IF ~env.exists THEN Missing(EmptyDataFrame, <<"error", "info">>)
        ELSE IF env.read_raises \/ env.clean_raises THEN Raise(<<>>)
        ELSE LET kept == SelectSeq(env.content, IsStr)          \* dropna
             IN  IF FloatColumn(env.content) THEN Raise(<<>>)   \* .str of a float column
                 ELSE Return(DataFrame(StripCells(SelectSeq(kept, NotBlank))), <<>>),
        Return(EmptyDataFrame, <<"error">>))

\* tab2: load_abnormal_events_segments()
load_abnormal_events_segments(env) ==
    TryExcept(
        IF env.locate_raises THEN Raise(<<>>)
        ELSE IF ~env.exists THEN Missing(NoneValue, <<"error", "info">>)
        ELSE IF env.read_raises \/ env.clean_raises THEN Raise(<<>>)
        \* properties.get('street_name', '').strip() of a null street_name
        ELSE IF \E i \in 1..Len(env.content) : ~IsStr(env.content[i]) THEN Raise(<<>>)
        ELSE Return(DataFrame(StripCells(env.content)), <<>>),
        Return(NoneValue, <<"error", "error">>))

\* tab2: load_cycleways_data()
load_cycleways_data(env) ==
    TryExcept(
        IF ~GEOPANDAS_AVAILABLE THEN Return(EmptyDataFrame, <<>>)
        ELSE IF env.locate_raises THEN Raise(<<>>)
        ELSE IF ~env.exists THEN Missing(EmptyDataFrame, <<>>)
        ELSE IF env.read_raises THEN Raise(<<>>)
        ELSE Return(GeoDataFrame(env.content), <<>>),
        Return(EmptyDataFrame, <<>>))

\* tab3: the three JSON loaders, which differ in their empty result
load_json(env, empty) ==
    TryExcept(
        IF env.locate_raises THEN Raise(<<>>)
        ELSE IF ~env.exists THEN Missing(empty, <<"warning">>)
        ELSE IF env.read_raises THEN Raise(<<>>)
        ELSE Return(Json(env.content), <<>>),
        Return(empty, <<"warning">>))

\* tab3: load_time_of_day_data()
load_time_of_day_data(env) == load_json(env, EmptyList)

\* tab3: load_day_of_week_data()
load_day_of_week_data(env) == load_json(env, EmptyJsonDict)

\* tab3: load_street_trends_metadata()
load_street_trends_metadata(env) == load_json(env, EmptyJsonDict)

\* load_daily_street_data() without its try
load_daily_street_data_no_try(env) ==
    IF ~env.exists THEN Missing(EmptyDataFrame, <<"warning">>)
    ELSE IF env.locate_raises \/ env.read_raises \/ env.clean_raises THEN Raise(<<>>)
    ELSE Return(DataFrame(env.content), <<>>)

\* tab3: load_daily_street_data()
load_daily_street_data(env) ==
    TryExcept(
        IF env.locate_raises THEN Raise(<<>>)
        ELSE IF ~env.exists THEN Missing(EmptyDataFrame, <<"warning">>)
        \* read_csv, or to_datetime of the date column
        ELSE IF env.read_raises \/ env.clean_raises THEN Raise(<<>>)
        ELSE Return(DataFrame(env.content), <<>>),
        Return(EmptyDataFrame, <<"warning">>))

\* tab3: load_cycleways_data()
load_cycleways_data_tab3(env) ==
    TryExcept(
        IF env.locate_raises THEN Raise(<<>>)
        ELSE IF ~env.exists THEN Missing(NoneValue, <<>>)
        ELSE IF env.read_raises THEN Raise(<<>>)
        ELSE Return(Json(env.content), <<>>),
        Return(NoneValue, <<>>))

\* tab3: load_road_segments()
load_road_segments(env) ==
    TryExcept(
        IF env.locate_raises THEN Raise(<<>>)
        ELSE IF ~env.exists THEN Missing(EmptyGeoDataFrame, <<"warning">>)
        ELSE TryExcept(
                \* json.load, GeoDataFrame.from_features; a failure to set the
                \* CRS is passed over
                IF env.read_raises \/ env.gdf_raises THEN Raise(<<>>)
                ELSE Return(GeoDataFrame(env.content), <<>>),
                \* the fallback loader reads the file again
                IF env.read_raises \/ env.fallback_raises THEN Raise(<<"info">>)
                ELSE Return(DataFrame(env.content), <<"info">>)),
        Return(EmptyDataFrame, <<"error", "error">>))

\* tab3: load_route_popularity_data()
load_route_popularity_data(env) ==
    TryExcept(
        IF env.locate_raises THEN Raise(<<>>)
        ELSE IF ~env.exists THEN Missing(EmptyDataFrame, <<"error">>)
        ELSE IF env.read_raises \/ env.clean_raises THEN Raise(<<>>)
        ELSE IF FloatColumn(env.content) THEN Raise(<<>>)       \* .str of a float column
        ELSE Return(DataFrame(StripCells(env.content)), <<>>),
        Return(EmptyDataFrame, <<"error", "error">>))

LoaderNames ==
    {"load_abnormal_events_data", "load_abnormal_events_segments", "load_cycleways_data",
     "load_time_of_day_data", "load_day_of_week_data", "load_street_trends_metadata",
     "load_daily_street_data", "load_cycleways_data_tab3", "load_road_segments",
     "load_route_popularity_data"}

\* the call of a loader by its name
Load(name, env) ==
    CASE name = "load_abnormal_events_data" -> load_abnormal_events_data(env)
      [] name = "load_abnormal_events_segments" -> load_abnormal_events_segments(env)
      [] name = "load_cycleways_data" -> load_cycleways_data(env)
      [] name = "load_time_of_day_data" -> load_time_of_day_data(env)
      [] name = "load_day_of_week_data" -> load_day_of_week_data(env)
      [] name = "load_street_trends_metadata" -> load_street_trends_metadata(env)
      [] name = "load_daily_street_data" -> load_daily_street_data(env)
      [] name = "load_cycleways_data_tab3" -> load_cycleways_data_tab3(env)
      [] name = "load_road_segments" -> load_road_segments(env)
      [] name = "load_route_popularity_data" -> load_route_popularity_data(env)

\* street_name cells of a data file
CellChoices == {NaN, <<" ">>, <<" ">> \o WestPier}

MaxFileRows == 2

\* every environment of a file
Envs ==
    [exists : BOOLEAN, locate_raises : BOOLEAN, read_raises : BOOLEAN,
     clean_raises : BOOLEAN, gdf_raises : BOOLEAN, fallback_raises : BOOLEAN,
     content : SeqsUpTo(CellChoices, MaxFileRows)]

NoEnv ==
    [exists |-> FALSE, locate_raises |-> FALSE, read_raises |-> FALSE,
     clean_raises |-> FALSE, gdf_raises |-> FALSE, fallback_raises |-> FALSE,
     content |-> <<>>]

\* the loader of loaderCall is called once
LoadCall ==
    /\ ~loaderCall.called
    /\ loaderCall' = [loaderCall EXCEPT !.called = TRUE,
                                        !.outcome = Load(loaderCall.name, loaderCall.env)]
    /\ UNCHANGED <<tabFiles, session_state, rendered,
                   inputVars, trendVars, metaVars, extractVars, trimCall>>

NoLoaderCall ==
    [called |-> FALSE, name |-> "load_abnormal_events_data", env |-> NoEnv,
     outcome |-> Return(NoneValue, <<>>)]

NoFiles == [tab2_csv |-> NoEnv, tab2_geojson |-> NoEnv, tab3_csv |-> NoEnv, tab3_geojson |-> NoEnv]

NothingRendered == [last |-> "none", tab2 |-> {}, tab3 |-> {}]

(***************************************************************************)
(* render_tab2 and render_tab3: one action is one run of the function,     *)
(* with the state of the widgets the user left: the checkbox, the popup    *)
(* clicked on the map and the button pressed.                              *)
(***************************************************************************)

\* The files a tab can find: missing, unreadable, readable only by the
\* fallback loader, and readable files of up to MaxTabRows rows.
MaxTabRows == 1

TabCellChoices == {NaN, <<" ">>, WestPier}

FileWith(content) == [NoEnv EXCEPT !.exists = TRUE, !.content = content]

GoodFile == FileWith(<<WestPier>>)

TabFileChoices ==
    {NoEnv, [GoodFile EXCEPT !.read_raises = TRUE], [GoodFile EXCEPT !.gdf_raises = TRUE]}
        \cup {FileWith(content) : content \in SeqsUpTo(TabCellChoices, MaxTabRows)}

\* @st.cache_data: a loader runs once for a file and its result, messages
\* included, is replayed in every later run
abnormal_events_data_cache == [env \in TabFileChoices |-> load_abnormal_events_data(env)]

cached_abnormal_events_data ==
    IF abnormal_events_data_cache = abnormal_events_data_cache
    THEN abnormal_events_data_cache ELSE abnormal_events_data_cache

abnormal_events_segments_cache ==
    [env \in TabFileChoices |-> load_abnormal_events_segments(env)]

cached_abnormal_events_segments ==
    IF abnormal_events_segments_cache = abnormal_events_segments_cache
    THEN abnormal_events_segments_cache ELSE abnormal_events_segments_cache

route_popularity_data_cache == [env \in TabFileChoices |-> load_route_popularity_data(env)]

cached_route_popularity_data ==
    IF route_popularity_data_cache = route_popularity_data_cache
    THEN route_popularity_data_cache ELSE route_popularity_data_cache

road_segments_cache == [env \in TabFileChoices |-> load_road_segments(env)]

cached_road_segments ==
    IF road_segments_cache = road_segments_cache
    THEN road_segments_cache ELSE road_segments_cache

\* None as the value of a session-state key
NoneStreet == <<"None">>

\* what a run of a tab is given: the data it loaded, the session state,
\* the event that started the run and the street whose popup is clicked
Events == {"open", "toggle_cycleways", "click_popup", "press_view", "press_close"}

\* the street names a popup can show
PopupStreets == {WestPier}

\* the Streamlit messages a loader emitted
Messages(outcome) == Range(outcome.messages)

\* the outcome of a run: the session state it leaves and the elements drawn
Drawn(session, elements) == [session |-> session, elements |-> elements]

\* st.sidebar.checkbox("Show Cycleways", key=key, value=False): the value
\* is kept under the key and flipped when the user toggles the box
checkbox(ss, key, event) ==
    DictPut(ss, key, IF key \notin DOMAIN ss THEN <<"False">>
                     ELSE IF event /= "toggle_cycleways" THEN ss[key]
                     ELSE IF ss[key] = <<"True">> THEN <<"False">> ELSE <<"True">>)

\* st_folium(..., key=key): last_object_clicked_popup is kept under the key
st_folium(ss, key, event, street, on_map) ==
    DictPut(ss, key, IF event = "click_popup" /\ street \in on_map THEN street
                     ELSE IF key \in DOMAIN ss THEN ss[key]
                     ELSE NoneStreet)

\* render_tab2 returns early whenever the CSV data is empty
tab2_data_missing_csv_only(abnormal_df, abnormal_segments_df) ==
    abnormal_df.rows = <<>>

\* the conditions under which render_tab2 returns early
tab2_data_missing(abnormal_df, abnormal_segments_df) ==
    \/ abnormal_df.rows = <<>>
    \/ abnormal_segments_df = NoneValue
    \/ abnormal_segments_df.rows = <<>>

\* the conditions under which render_tab3 returns early
tab3_data_missing(route_df, road_segments_df) ==
    \/ route_df.rows = <<>>
    \/ road_segments_df.rows = <<>>

\* the `Display analysis` block of both tabs
display_analysis(ss, key, loaded_key, streets, event, elements) ==
    IF ss[key] = NoneStreet THEN Drawn(ss, elements)
    ELSE LET street_name == ss[key]
             spinner == IF loaded_key \in DOMAIN ss /\ ss[loaded_key] = street_name
                        THEN {} ELSE {"spinner"}
             ss1 == DictPut(ss, loaded_key, street_name)
             details == IF street_name \in streets THEN {"detail_card"} ELSE {"error"}
             ss2 == IF event = "press_close"
                    THEN DictPut(DictPut(ss1, key, NoneStreet), loaded_key, NoneStreet)
                    ELSE ss1
         IN  Drawn(ss2, elements \cup spinner \cup details \cup {"close_button"})

\* render_tab2()
render_tab2(files, ss, event, street) ==
    LET data == cached_abnormal_events_data[files.tab2_csv]
        segments == cached_abnormal_events_segments[files.tab2_geojson]
        abnormal_df == data.value
        abnormal_segments_df == segments.value
        loaded == Messages(data) \cup Messages(segments)
    IN  IF tab2_data_missing(abnormal_df, abnormal_segments_df)
        THEN Drawn(ss, loaded \cup {"error", "info"})
        ELSE LET ss1 == IF "abnormal_analysis" \in DOMAIN ss THEN ss
                        ELSE DictPut(ss, "abnormal_analysis", NoneStreet)
                 ss2 == checkbox(ss1, "cycleways_abnormal", event)
                 streets == Range(abnormal_df.rows)
                 on_map == {n \in Range(abnormal_segments_df.rows) : n \in streets}
                 routes_added == Cardinality({i \in 1..Len(abnormal_segments_df.rows) :
                                                abnormal_segments_df.rows[i] \in streets})
                 top == loaded \cup {"header", "metrics", "checkbox"}
             IN  IF routes_added > 0
                 THEN LET ss3 == st_folium(ss2, "abnormal_events_map", event, street, on_map)
                          popup == ss3["abnormal_events_map"]
                          clicked_street == IF popup \in streets THEN popup ELSE NoneStreet
                      IN  IF clicked_street = NoneStreet
                          THEN display_analysis(ss3, "abnormal_analysis",
                                                "abnormal_analysis_loaded", streets, event,
                                                top \cup {"map"})
                          ELSE display_analysis(
                                   IF event = "press_view"
                                   THEN DictPut(ss3, "abnormal_analysis", clicked_street)
                                   ELSE ss3,
                                   "abnormal_analysis", "abnormal_analysis_loaded", streets,
                                   event, top \cup {"map", "view_button"})
                 ELSE display_analysis(ss2, "abnormal_analysis", "abnormal_analysis_loaded",
                                       streets, event, top \cup {"warning"})

\* the first loop over df['street_name'].tolist() for the popup of street c:
\* startswith of a missing name raises TypeError, the empty name is a prefix
\* of every popup
RECURSIVE scan_popup(_, _)
scan_popup(names, c) ==
    IF names = <<>> THEN "miss"
    ELSE IF ~IsStr(Head(names)) THEN "crash"
    ELSE IF Head(names) = <<>> THEN "blank"
    ELSE IF Head(names) = c THEN "hit"
    ELSE scan_popup(Tail(names), c)

\* render_tab3()
render_tab3(files, ss, event, street) ==
    LET data == cached_route_popularity_data[files.tab3_csv]
        segments == cached_road_segments[files.tab3_geojson]
        route_df == data.value
        road_segments_df == segments.value
        loaded == Messages(data) \cup Messages(segments)
    IN  IF tab3_data_missing(route_df, road_segments_df)
        THEN Drawn(ss, loaded \cup {"error", "info"})
        ELSE LET ss1 == IF "route_analysis" \in DOMAIN ss THEN ss
                        ELSE DictPut(ss, "route_analysis", NoneStreet)
                 ss2 == checkbox(ss1, "tab3_cycleways_route", event)
                 streets == Range(route_df.rows)
                 on_map == {n \in streets : IsStr(n) /\ n \in Range(road_segments_df.rows)}
                 routes_added == Cardinality({i \in 1..Len(route_df.rows) :
                                                route_df.rows[i] \in on_map})
                 top == loaded \cup {"header", "metrics", "checkbox"}
             IN  IF routes_added > 0
                 THEN LET ss3 == st_folium(ss2, "tab3_route_map", event, street, on_map)
                          popup == ss3["tab3_route_map"]
                          scan == IF popup = NoneStreet THEN "miss"
                                  ELSE scan_popup(route_df.rows, popup)
                      IN  IF scan = "crash"
                          THEN Drawn(ss3, top \cup {"map", "exception"})
                          ELSE IF scan = "hit" /\ event = "press_view"
                          THEN \* st.rerun() ends the run
                               Drawn(DictPut(ss3, "route_analysis", popup),
                                     top \cup {"map", "view_button"})
                          ELSE display_analysis(ss3, "route_analysis",
                                   "route_analysis_loaded", streets, event,
                                   top \cup {"map"}
                                       \cup (IF scan = "hit" THEN {"view_button"} ELSE {}))
                 ELSE display_analysis(ss2, "route_analysis", "route_analysis_loaded",
                                       streets, event, top \cup {"warning"})

\* the user can act only on a widget that the last run of the tab drew
Enabled(event, elements) ==
    CASE event = "open" -> TRUE
      [] event = "toggle_cycleways" -> "checkbox" \in elements
      [] event = "click_popup" -> "map" \in elements
      [] event = "press_view" -> "view_button" \in elements
      [] event = "press_close" -> "close_button" \in elements

\* one run of render_tab2
RenderTab2 ==
    \E event \in Events, street \in PopupStreets :
        /\ Enabled(event, rendered.tab2)
        /\ LET run == render_tab2(tabFiles, session_state, event, street)
           IN  /\ session_state' = run.session
               /\ rendered' = [rendered EXCEPT !.last = "tab2", !.tab2 = run.elements]
        /\ UNCHANGED <<loaderCall, tabFiles, inputVars, trendVars, metaVars, extractVars, trimCall>>

\* one run of render_tab3
RenderTab3 ==
    \E event \in Events, street \in PopupStreets :
        /\ Enabled(event, rendered.tab3)
        /\ LET run == render_tab3(tabFiles, session_state, event, street)
           IN  /\ session_state' = run.session
               /\ rendered' = [rendered EXCEPT !.last = "tab3", !.tab3 = run.elements]
        /\ UNCHANGED <<loaderCall, tabFiles, inputVars, trendVars, metaVars, extractVars, trimCall>>

\* the dashboard is not run
TabsIdle ==
    /\ loaderCall = NoLoaderCall
    /\ tabFiles = NoFiles
    /\ session_state = EmptyDict
    /\ rendered = NothingRendered

\* street-extractor.py is not run
ExtractIdle == ExtractFresh("absent", {}, {}, <<>>, 0) /\ trimCall = NoCall

(***************************************************************************)
(* The two scripts over the same pair of input files, run one after the    *)
(* other in either order.                                                  *)
(***************************************************************************)

\* the state before either script has run, over the given input files
Fresh(daily, popularity) ==
    /\ df = daily
    /\ df2 = popularity
    /\ trendPc = "idle"
    /\ target_streets = <<>>
    /\ trendIdx = 0
    /\ street_variants = <<>>
    /\ simple_day_data = EmptyDict
    /\ streets_not_found = <<>>
    /\ trendJson = [exists |-> FALSE, data |-> EmptyDict]
    /\ metaPc = "idle"
    /\ metaIdx = 0
    /\ trends_metadata = EmptyDict
    /\ report = EmptyDict

Init ==
    \E daily \in SeqsUpTo(DailyRows, MaxRows), popularity \in SeqsUpTo(StreetNameChoices, MaxStreets) :
        Fresh(daily, popularity) /\ ExtractIdle /\ TabsIdle

Next ==
    \/ TrendStart
    \/ TrendProcessStreet
    \/ TrendSave
    \/ MetaStart
    \/ MetaProcessRow
    \/ MetaSave
    \/ MetaValidate

vars == <<inputVars, trendVars, metaVars, extractVars, trimCall, tabVars>>

Spec == Init /\ [][Next]_vars

(***************************************************************************)
(* trend_extractor.py alone                                                *)
(***************************************************************************)

MaxTrendRows == 1

MaxTrendStreets == 2

InitTrend ==
    \E daily \in SeqsUpTo(DailyRows, MaxTrendRows),
       popularity \in SeqsUpTo(StreetNameChoices, MaxTrendStreets) :
        Fresh(daily, popularity) /\ ExtractIdle /\ TabsIdle

NextTrend ==
    \/ TrendStart
    \/ TrendProcessStreet
    \/ TrendSave

SpecTrend == InitTrend /\ [][NextTrend]_vars

(***************************************************************************)
(* trend-metadata.py alone                                                 *)
(***************************************************************************)

MetaStreetChoices == {WestPier, NutleyAndWestPier, NaN}

MaxMetaRows == 2

MaxMetaStreets == 1

InitMeta ==
    \E daily \in SeqsUpTo(DailyRows, MaxMetaRows),
       popularity \in SeqsUpTo(MetaStreetChoices, MaxMetaStreets) :
        Fresh(daily, popularity) /\ ExtractIdle /\ TabsIdle

NextMeta ==
    \/ MetaStart
    \/ MetaProcessRow
    \/ MetaSave
    \/ MetaValidate

SpecMeta == InitMeta /\ [][NextMeta]_vars


(***************************************************************************)
(* One run of street-extractor.py over every content of the input files,   *)
(* with or without a graph file left by an earlier run.                    *)
(***************************************************************************)

MaxInputRows == 2

InitExtract ==
    \E cache \in {"absent", "valid"},
       edges \in SUBSET EdgeUniverse,
       points \in SUBSET PointUniverse,
       rows \in SeqsUpTo(ExtractNameChoices, MaxInputRows) :
        /\ ExtractFresh(cache, edges, points, rows, 1)
        /\ Fresh(<<>>, <<>>)
        /\ trimCall = NoCall
        /\ TabsIdle

NextExtract ==
    \/ ExStart
    \/ LoadCachedGraph
    \/ DownloadGraph
    \/ ConvertGraph
    \/ ExProcessRow
    \/ ExProcessRowNaN
    \/ ExExport
    \/ ExSummary

SpecExtract == InitExtract /\ [][NextExtract]_vars

(***************************************************************************)
(* street-extractor.py run up to MaxRuns times in the same directory, with *)
(* or without a graph file left by an earlier run.                         *)
(***************************************************************************)

MaxRuns == 3

MaxRerunRows == 1

InitRerun ==
    \E cache \in {"absent", "valid"},
       rows \in SeqsUpTo(ExtractNameChoices, MaxRerunRows) :
        /\ ExtractFresh(cache, EdgeUniverse, PointUniverse, rows, MaxRuns)
        /\ Fresh(<<>>, <<>>)
        /\ trimCall = NoCall
        /\ TabsIdle

SpecRerun == InitRerun /\ [][NextExtract]_vars

(***************************************************************************)
(* trim_geometry_to_points alone, over every road of up to MaxCell cells   *)
(* and every set of up to MaxPoints cyclist points.                        *)
(***************************************************************************)

MaxCell == 7

MaxPoints == 2

InitTrim ==
    \E road \in SUBSET (0..(MaxCell - 1)), points \in SUBSET (0..MaxCell) :
        /\ road /= {}
        /\ points /= {}
        /\ Cardinality(points) <= MaxPoints
        /\ trimCall = [called |-> FALSE, road |-> road, points |-> points, result |-> NoGeom]
        /\ Fresh(<<>>, <<>>)
        /\ ExtractFresh("absent", {}, {}, <<>>, 0)
        /\ TabsIdle

NextTrim == TrimCall

SpecTrim == InitTrim /\ [][NextTrim]_vars

(***************************************************************************)
(* One call of one data loader of the tabs, over every environment of its  *)
(* file.                                                                   *)
(***************************************************************************)

InitLoad ==
    \E name \in LoaderNames, env \in Envs :
        /\ loaderCall = [NoLoaderCall EXCEPT !.name = name, !.env = env]
        /\ tabFiles = NoFiles
        /\ session_state = EmptyDict
        /\ rendered = NothingRendered
        /\ Fresh(<<>>, <<>>)
        /\ ExtractIdle

NextLoad == LoadCall

SpecLoad == InitLoad /\ [][NextLoad]_vars

\* The dashboard: both tabs are rendered again and again over one
\* st.session_state.  The files of one tab range over TabFileChoices; the
\* other tab's files are in place.
InitTabs ==
    \E csv \in TabFileChoices, geojson \in TabFileChoices :
        /\ tabFiles \in {[tab2_csv |-> csv, tab2_geojson |-> geojson,
                           tab3_csv |-> GoodFile, tab3_geojson |-> GoodFile],
                          [tab2_csv |-> GoodFile, tab2_geojson |-> GoodFile,
                           tab3_csv |-> csv, tab3_geojson |-> geojson]}
        /\ loaderCall = NoLoaderCall
        /\ session_state = EmptyDict
        /\ rendered = NothingRendered
        /\ Fresh(<<>>, <<>>)
        /\ ExtractIdle

NextTabs == RenderTab2 \/ RenderTab3

SpecTabs == InitTabs /\ [][NextTabs]_vars

(***************************************************************************)
(* Properties                                                              *)
(***************************************************************************)

\* C1: the validation loop of trend-metadata.py never reports a MISMATCH: for
\* every street in both outputs, stats.total_cyclists of the metadata equals
\* total_cyclists of trend.json.
C1_NoMismatch ==
    \A street \in DOMAIN report : report[street] /= "MISMATCH"

\* C2: for every street of the metadata, stats.total_cyclists equals the sum
\* of the seven values of stats.weekly_pattern.
C2_TotalEqualsWeeklyPattern ==
    \A street \in DOMAIN trends_metadata :
        LET stats == trends_metadata[street].stats
        IN  stats.total_cyclists = SumPattern(stats.weekly_pattern)

\* C2 witness: a stored street with several records on one date or without date
C2_Witness ==
    \E street \in DOMAIN trends_metadata :
        LET stats == trends_metadata[street].stats
        IN  /\ stats.total_records > stats.total_days
            /\ stats.total_cyclists >= 2

\* the bins of a resampled series that hold the day d
BinsOf(daily, resampled, d) ==
    LET labels == [k \in 1..Len(resampled) |-> resampled[k].date]
    IN  {k \in 1..Len(labels) : \E i \in 1..Len(BinRows(daily, labels, k)) :
                                    BinRows(daily, labels, k)[i].date = d}

\* C3: weekly and monthly aggregation lose and duplicate nothing: every
\* aggregated day is in exactly one weekly and exactly one monthly bin, and the
\* weekly and the monthly sums of cyclists and of rides equal the daily sums.
C3_ResamplePreservesSums ==
    \A street \in DOMAIN trends_metadata :
        LET e == trends_metadata[street]
        IN  /\ SumCyclists(e.weekly) = SumCyclists(e.daily)
            /\ SumRides(e.weekly) = SumRides(e.daily)
            /\ SumCyclists(e.monthly) = SumCyclists(e.daily)
            /\ SumRides(e.monthly) = SumRides(e.daily)
            /\ \A i \in 1..Len(e.daily) :
                   /\ Cardinality(BinsOf(e.daily, e.weekly, e.daily[i].date)) = 1
                   /\ Cardinality(BinsOf(e.daily, e.monthly, e.daily[i].date)) = 1

\* C3 witness: a street whose days spread over two weeks and two months
C3_Witness ==
    \E street \in DOMAIN trends_metadata :
        LET e == trends_metadata[street]
        IN  /\ Len(e.daily) >= 2
            /\ Len(e.weekly) >= 2
            /\ Len(e.monthly) >= 2

\* some record of the daily file matches a variant of the street
HasMatch(street) ==
    \E i \in 1..Len(df) : \E v \in Range(get_street_variants(street)) :
        ContainsNoCase(df[i].road_name, v)

\* C4: trend.json holds one entry for every distinct 'Street Name', also for a
\* street without matching record; each day_totals has the seven keys
\* Monday..Sunday (all 0 when nothing matched) and total_cyclists is their sum.
C4_EntryForEveryStreet ==
    trendPc = "written" =>
        /\ DOMAIN trendJson.data = Range(df2)
        /\ \A street \in DOMAIN trendJson.data :
               LET e == trendJson.data[street]
               IN  /\ DOMAIN e.day_totals = Range(days_order)
                   /\ e.total_cyclists = SumValues(e.day_totals)
                   /\ ~HasMatch(street) => \A day \in Range(days_order) : e.day_totals[day] = 0

\* C4 witness: a written file with a street without match and a street with
\* cyclists
C4_Witness ==
    /\ trendPc = "written"
    /\ \E street \in DOMAIN trendJson.data : ~HasMatch(street)
    /\ \E street \in DOMAIN trendJson.data : trendJson.data[street].total_cyclists > 0

\* the records of the daily file, by position, that match a variant of the
\* street and fall on the day
MatchingOnDay(street, day) ==
    {i \in 1..Len(df) :
        /\ \E v \in Range(get_street_variants(street)) : ContainsNoCase(df[i].road_name, v)
        /\ day_name(df[i].date) = day}

RECURSIVE SumOverRecords(_)
SumOverRecords(I) ==
    IF I = {} THEN 0
    ELSE LET i == CHOOSE x \in I : TRUE
         IN  df[i].daily_cyclists + SumOverRecords(I \ {i})

\* C5: every record whose road_name contains a variant contributes its
\* daily_cyclists exactly once to the day totals of the entry: none twice,
\* none dropped.
C5_EachMatchingRecordOnce ==
    \A street \in DOMAIN simple_day_data : \A day \in Range(days_order) :
        simple_day_data[street].day_totals[day] = SumOverRecords(MatchingOnDay(street, day))

\* C6: get_street_variants yields every individual street name: the '/'
\* alternatives and the '&' members, stripped and non-empty, the stripped name
\* without separator, the empty list for a non-string.
C6_VariantsAreAllNames ==
    (trendPc /= "idle" /\ trendIdx > 0) =>
        street_variants = AllStreetNames(target_streets[trendIdx])


\* distance on the ground between two nodes, in millimetres
ground_mm(a, b) == Abs(to_crs_3857(a) - to_crs_3857(b)) * CosLatPermille

\* the cells of a road that lie wholly within buffer_m metres of a point
NearCells(road, points) ==
    {c \in road : \E p \in points : /\ ground_mm(c, p) <= buffer_m * 1000
                                    /\ ground_mm(c + 1, p) <= buffer_m * 1000}

\* C7: the result of trim_geometry_to_points lies on the road and within
\* buffer_m (25 m) of a cyclist point, every section of the road within 25 m
\* of a point is in the result, and the result is None when no section of
\* the road is that close to a point.
C7_TrimmedToBuffer ==
    trimCall.called =>
        LET near == NearCells(trimCall.road, trimCall.points)
        IN  /\ trimCall.result.cells \subseteq near
            /\ near \subseteq trimCall.result.cells
            /\ near = {} => trimCall.result = NoGeom

\* the separators between road names: 'and' is a word of its own
RoadSeparators == << <<"&">>, <<"/">>, <<" ","a","n","d"," ">>, <<",">>, <<";">> >>

\* the road names of a cleaned street name
RoadsOf(street_name) == SplitAll(<<street_name>>, RoadSeparators)

\* C8: the parts of a row are the stripped road names of its cleaned street
\* name, one per road; a single road yields exactly one part, the cleaned
\* name itself.
C8_OnePartPerRoad ==
    (exPc \in {"rows", "summary", "done"} /\ exIdx > 0) =>
        parts = RoadsOf(CleanName(file_a[exIdx]))

\* a part with an OSM match, cyclist points and a non-None trimmed geometry
PartQualifies(part, edges, points) ==
    /\ part /= <<>>
    /\ ~get_street_geometry(part, edges).isNone
    /\ subset_points(part, points) /= {}
    /\ ~trim_geometry_to_points(get_street_geometry(part, edges).cells,
                                {p.pos : p \in subset_points(part, points)}).isNone

\* has the street name a qualifying part
qualifies_table ==
    [e \in SUBSET EdgeUniverse, p \in SUBSET PointUniverse, n \in StrNames |->
        LET ps == SplitParts(CleanName(n))
        IN  \E k \in 1..Len(ps) : PartQualifies(ps[k], e, p)]

\* the same table; the comparison makes TLC compute its entries once
qualifies == IF qualifies_table = qualifies_table THEN qualifies_table ELSE qualifies_table

RowQualifies(i) ==
    /\ IsStr(file_a[i])
    /\ qualifies[gdf_edges, gdf_points, file_a[i]]

QualifyingRows == {i \in 1..exIdx : RowQualifies(i)}

SummaryAddsUp ==
    summary.printed =>
        /\ summary.total = Len(file_a)
        /\ summary.ok = Cardinality(added)
        /\ summary.ok + summary.failed = summary.total
        /\ summary.ok >= 0
        /\ summary.failed >= 0

\* C9 as stated: at most one segment per row, a row is added exactly when one
\* of its parts had an OSM match, cyclist points and a non-None trimmed
\* geometry, and the two counts of the summary add up to the total.
C9_AddedExactlyWhenQualifies ==
    /\ Len(final_segments) = Cardinality(added)
    /\ added = QualifyingRows
    /\ SummaryAddsUp

\* C9: at most one segment per row, a row is added exactly when one of its
\* parts had an OSM match, cyclist points and a non-None trimmed geometry and
\* the merge of its trimmed parts did not raise, and the two counts of the
\* summary add up to the total, neither being negative.
C9_AddedWhenQualifiesAndMerged ==
    /\ Len(final_segments) = Cardinality(added)
    /\ Len(final_segments) <= exIdx
    /\ added = QualifyingRows \ merge_raised
    /\ merge_raised \subseteq QualifyingRows
    /\ SummaryAddsUp

\* a finished run over two rows: the first has no qualifying part, the second
\* is added with two trimmed parts merged into one segment
C9_Witness ==
    /\ exPc = "done"
    /\ Len(file_a) = 2
    /\ ~RowQualifies(1)
    /\ added = {2}
    /\ Len(all_parts) = 2
    /\ Len(final_segments) = 1
    /\ summary.ok = 1
    /\ summary.failed = 1

\* C10: a run downloads only if dublin_graph.graphml does not exist, a save
\* follows a download and leaves the file in place, and once a run has
\* downloaded and saved, every later run loads the file and never downloads.
C10_DownloadOnce ==
    [][/\ downloads' > downloads => graphFile = "absent"
       /\ saves' > saves => (downloads' = downloads + 1 /\ graphFile' = "valid")
       /\ saves >= 1 => /\ downloads' = downloads
                        /\ graphFile' = "valid"
                        /\ exPc = "graph" => exPc' = "convert"]_vars

\* the first run downloaded and saved, the second run loaded the cached file
\* and finished
C10_Witness ==
    /\ runs = 2
    /\ downloads = 1
    /\ saves = 1
    /\ graphFile = "valid"
    /\ exPc = "done"

\* C11: a run in which loading, downloading or converting the graph raised
\* has processed no street and has not written the output file; every other
\* run that ended has written the output file, with zero features when no
\* segment was extracted.
C11_OutputUnlessGraphFails ==
    /\ exPc = "failed" =>
           /\ exIdx = 0
           /\ final_segments = <<>>
           /\ outputFile.run /= runs
    /\ exPc \in {"done", "crashed"} =>
           /\ outputFile.exists
           /\ outputFile.run = runs
           /\ outputFile.features = Len(final_segments)

\* the empty results of a loader
EmptyResults(name) ==
    CASE name \in {"load_abnormal_events_data", "load_cycleways_data",
                   "load_daily_street_data", "load_route_popularity_data"} -> {EmptyDataFrame}
      [] name \in {"load_abnormal_events_segments", "load_cycleways_data_tab3"} -> {NoneValue}
      [] name = "load_time_of_day_data" -> {EmptyList}
      [] name \in {"load_day_of_week_data", "load_street_trends_metadata"} -> {EmptyJsonDict}
      [] name = "load_road_segments" -> {EmptyGeoDataFrame, EmptyDataFrame}

FallbackLoads(env) ==
    /\ env.exists
    /\ ~env.locate_raises
    /\ ~env.read_raises
    /\ env.gdf_raises
    /\ ~env.fallback_raises

DataElements == {"metrics", "map", "view_button", "close_button", "detail_card"}

\* the CSV data of tab 2 loads empty or its segment geometry is None or empty
Tab2LoadsEmpty ==
    LET abnormal_df == cached_abnormal_events_data[tabFiles.tab2_csv].value
        abnormal_segments_df == cached_abnormal_events_segments[tabFiles.tab2_geojson].value
    IN  \/ abnormal_df.rows = <<>>
        \/ abnormal_segments_df = NoneValue
        \/ abnormal_segments_df.rows = <<>>

\* the CSV data of tab 3 loads empty or its segment geometry is empty
Tab3LoadsEmpty ==
    LET route_df == cached_route_popularity_data[tabFiles.tab3_csv].value
        road_segments_df == cached_road_segments[tabFiles.tab3_geojson].value
    IN  \/ route_df.rows = <<>>
        \/ road_segments_df = NoneValue
        \/ road_segments_df.rows = <<>>

\* a run of the tab stopped with an error message and nothing else
StoppedWithError(elements) ==
    /\ "error" \in elements
    /\ elements \cap DataElements = {}

\* C13: a run of render_tab2 or render_tab3 whose CSV data loads empty or
\* whose segment geometry is None or empty stops with an error message: it
\* draws no KPI metrics, map, button or detail card, and it creates and
\* changes no session-state key.
C13_EmptyDataStopsRun ==
    [][/\ (rendered'.last = "tab2" /\ Tab2LoadsEmpty)
           => (session_state' = session_state /\ StoppedWithError(rendered'.tab2))
       /\ (rendered'.last = "tab3" /\ Tab3LoadsEmpty)
           => (session_state' = session_state /\ StoppedWithError(rendered'.tab3))]_vars

\* tab 2 has just stopped on empty data while the session state holds the
\* analysis the user opened in tab 3
C13_Witness ==
    /\ rendered.last = "tab2"
    /\ Tab2LoadsEmpty
    /\ StoppedWithError(rendered.tab2)
    /\ "route_analysis" \in DOMAIN session_state
    /\ session_state["route_analysis"] = WestPier
    /\ "abnormal_analysis" \notin DOMAIN session_state

====
